---- MODULE Spec2Model ----
(***************************************************************************)
(* Balance reconciliation of the transactions app: TransactionForm and the *)
(* create / update / delete views of src/transactions, over a store of     *)
(* cards (balances) and transactions.                                      *)
(***************************************************************************)
EXTENDS Integers, FiniteSets, Sequences, TLC

\* ------------------------------------------------------------------ bounds
MaxTx == 2
MaxAmount == 2
MaxOps == 2
MaxOpening == 1

\* ------------------------------------------------------------ fixed records
Users == {"u1", "u2"}
Anonymous == "anon"
Requesters == Users \cup {Anonymous}

NoCard == "cash"
Cards == {"c1", "c2", "c3"}
CardOwner == [c \in Cards |-> IF c = "c3" THEN "u2" ELSE "u1"]

NoCategory == "nocat"
Categories == {"k1i", "k1e", "k1x", "k2e"}
CatOwner == [k \in Categories |-> IF k = "k2e" THEN "u2" ELSE "u1"]
CatType == [k \in Categories |-> IF k = "k1i" THEN "income" ELSE "expense"]
CatActive == [k \in Categories |-> k # "k1x"]

NoType == "absent"
TYPE_CHOICES == {"income", "expense"}
CategoryRequired == TRUE

TxIds == 1..MaxTx
Amounts == 1..MaxAmount

\* POST data of a transaction form: a key that is not submitted is NoType /
\* NoCard / NoCategory.
FormData ==
    [type : TYPE_CHOICES \cup {NoType},
     amount : Amounts,
     card : Cards \cup {NoCard},
     category : Categories \cup {NoCategory}]

NoData == [type |-> NoType, amount |-> 1, card |-> NoCard, category |-> NoCategory]

VARIABLES db, opening, last, ops, reqs, ver, dash

vars == <<db, opening, last, ops, reqs, ver, dash>>

\* ------------------------------------------------------------------- store
\* db.cards[c] is Card.balance, db.txs the Transaction table by pk, db.seq the
\* next primary key.
CardLoad(S, c) == [id |-> c, balance |-> IF c \in Cards THEN S.cards[c] ELSE 0]

\* Faulty variant: the save is not restricted to the card object's own row.
CardSaveEveryRow(S, obj) == [S EXCEPT !.cards = [c \in Cards |-> obj.balance]]

CardSave(S, obj) == [S EXCEPT !.cards[obj.id] = obj.balance]

\* Faulty variant: the form is saved without writing the row (commit=False).
TxInsertUncommitted(S, inst) == [S EXCEPT !.seq = S.seq + 1]

TxInsert(S, inst) ==
    [S EXCEPT !.txs = [p \in DOMAIN S.txs \cup {S.seq} |->
                          IF p = S.seq THEN inst ELSE S.txs[p]],
              !.seq = S.seq + 1]

TxSave(S, pk, inst) ==
    [S EXCEPT !.txs = [p \in DOMAIN S.txs \cup {pk} |->
                          IF p = pk THEN inst ELSE S.txs[p]]]

TxDelete(S, pk) ==
    [S EXCEPT !.txs = [p \in DOMAIN S.txs \ {pk} |-> S.txs[p]]]

\* --------------------------------------------------------- TransactionForm
\* Faulty variant: the card choices are not filtered by owner.
CardQuerysetUnfiltered(user) == Cards

CardQueryset(user) == {c \in Cards : CardOwner[c] = user}

FormTxType(data, hasInstance, instanceType) ==
    IF data.type # NoType THEN data.type
    ELSE IF hasInstance THEN instanceType
    ELSE NoType

\* Faulty variant: the category choices are not filtered by transaction type.
CategoryQuerysetAnyType(user, data, hasInstance, instanceType) ==
    {k \in Categories : CatOwner[k] = user /\ CatActive[k]}

CategoryQueryset(user, data, hasInstance, instanceType) ==
    LET categories == {k \in Categories : CatOwner[k] = user /\ CatActive[k]}
        tx_type == FormTxType(data, hasInstance, instanceType)
    IN  IF tx_type \in {"income", "expense"}
        THEN {k \in categories : CatType[k] = tx_type}
        ELSE categories

FormIsValid(user, data, hasInstance, instanceType) ==
    /\ data.type \in TYPE_CHOICES
    /\ data.card \in CardQueryset(user) \cup {NoCard}
    /\ \/ data.category \in CategoryQueryset(user, data, hasInstance, instanceType)
       \/ data.category = NoCategory /\ ~CategoryRequired

\* The instance the form builds from its cleaned data.
FormInstance(user, data) ==
    [user |-> user, type |-> data.type, amount |-> data.amount,
     card |-> data.card, category |-> data.category]

\* ------------------------------------------------------ balance arithmetic
\* Faulty variant: create adds the amount whatever the type.
CreateApplyAlwaysAdds(card, type, amount) ==
    [card EXCEPT !.balance = card.balance + amount]

CreateApply(card, type, amount) ==
    IF type = "income"
    THEN [card EXCEPT !.balance = card.balance + amount]
    ELSE [card EXCEPT !.balance = card.balance - amount]

UpdateRollback(old_card, type, amount) ==
    IF type = "income"
    THEN [old_card EXCEPT !.balance = old_card.balance - amount]
    ELSE [old_card EXCEPT !.balance = old_card.balance + amount]

UpdateApply(new_card, type, amount) ==
    IF type = "income"
    THEN [new_card EXCEPT !.balance = new_card.balance + amount]
    ELSE [new_card EXCEPT !.balance = new_card.balance - amount]

\* Faulty variant: delete subtracts the amount whatever the type.
DeleteRollbackAlwaysSubtracts(card, type, amount) ==
    [card EXCEPT !.balance = card.balance - amount]

DeleteRollback(card, type, amount) ==
    IF type = "income"
    THEN [card EXCEPT !.balance = card.balance - amount]
    ELSE [card EXCEPT !.balance = card.balance + amount]

\* ------------------------------------------------- whole request handlers
LoginRequired(requester) == requester \in Users

UpdateQueryset(S, requester) == {p \in DOMAIN S.txs : S.txs[p].user = requester}

DeleteQueryset(S, requester) == DOMAIN S.txs

\* TransactionCreateView.post: validate, then form_valid.
CreateAccepted(S, requester, data) ==
    /\ LoginRequired(requester)
    /\ FormIsValid(requester, data, FALSE, NoType)

CreateResult(S, requester, data) ==
    LET inst == FormInstance(requester, data)
        card == CardLoad(S, data.card)
        S1 == TxInsert(S, inst)
    IN  IF card.id # NoCard
        THEN CardSave(S1, CreateApply(card, inst.type, inst.amount))
        ELSE S1

\* TransactionUpdateView.post: get_object, validate, then form_valid.
UpdateAccepted(S, requester, pk, data) ==
    /\ LoginRequired(requester)
    /\ pk \in UpdateQueryset(S, requester)
    /\ FormIsValid(requester, data, TRUE, S.txs[pk].type)

UpdateResult(S, requester, pk, data) ==
    LET inst == FormInstance(S.txs[pk].user, data)
        new_card == CardLoad(S, data.card)
        old_transaction == S.txs[pk]
        old_card == CardLoad(S, old_transaction.card)
        S1 == IF old_card.id # NoCard
              THEN CardSave(S, UpdateRollback(old_card, old_transaction.type,
                                              old_transaction.amount))
              ELSE S
        S2 == TxSave(S1, pk, inst)
    IN  IF new_card.id # NoCard
        THEN CardSave(S2, UpdateApply(new_card, inst.type, inst.amount))
        ELSE S2

\* TransactionDeleteView.delete.
DeleteAccepted(S, requester, pk) == pk \in DeleteQueryset(S, requester)

DeleteResult(S, requester, pk) ==
    LET transaction == S.txs[pk]
        card == CardLoad(S, transaction.card)
        S1 == IF card.id # NoCard
              THEN CardSave(S, DeleteRollback(card, transaction.type,
                                              transaction.amount))
              ELSE S
    IN  TxDelete(S1, pk)

\* --------------------------------------------------------------- requests
\* A request in flight: its position, the objects it holds in memory (card is
\* the Card object it saves last, old the update's old_card, oldtx the stored
\* transaction it read) and rv, the version of card's row when it was read.
NoTx == [user |-> Anonymous, type |-> NoType, amount |-> 1, card |-> NoCard,
         category |-> NoCategory]

NoObj == [id |-> NoCard, balance |-> 0]

Idle == [pc |-> "idle", op |-> "none", user |-> Anonymous, pk |-> 0,
         data |-> NoData, card |-> NoObj, old |-> NoObj, oldtx |-> NoTx, rv |-> 0]

Procs == {"p1", "p2"}

\* The context of the last dashboard rendered (none yet: user is Anonymous).
NoParam == [given |-> FALSE, text |-> <<>>]

NoDash == [user |-> Anonymous, today |-> [year |-> 2025, month |-> 1, day |-> 1],
           period |-> "month", param |-> NoParam, selected |-> NoCard,
           income |-> 0, expense |-> 0, balance |-> 0, recs |-> <<>>]

Init ==
    /\ opening \in {[c \in Cards |-> b] : b \in 0..MaxOpening}
    /\ db = [cards |-> opening, txs |-> <<>>, seq |-> 1]
    /\ last = [op |-> "none", user |-> Anonymous, pk |-> 0, data |-> NoData,
               choices |-> {}, pre |-> db]
    /\ ops = 0
    /\ reqs = [p \in Procs |-> Idle]
    /\ ver = [c \in Cards |-> 0]
    /\ dash = NoDash

\* A request the view turns away (login redirect, 404, invalid form) writes
\* nothing: it is no step of the store.
Create(requester, data) ==
    /\ ops < MaxOps
    /\ db.seq \in TxIds
    /\ CreateAccepted(db, requester, data)
    /\ ops' = ops + 1
    /\ db' = CreateResult(db, requester, data)
    /\ last' = [op |-> "create", user |-> requester, pk |-> db.seq, data |-> data,
                choices |-> CategoryQueryset(requester, data, FALSE, NoType),
                pre |-> db]
    /\ UNCHANGED <<dash, opening, reqs, ver>>

Update(requester, pk, data) ==
    /\ ops < MaxOps
    /\ UpdateAccepted(db, requester, pk, data)
    /\ ops' = ops + 1
    /\ db' = UpdateResult(db, requester, pk, data)
    /\ last' = [op |-> "update", user |-> requester, pk |-> pk, data |-> data,
                choices |-> CategoryQueryset(requester, data, TRUE, db.txs[pk].type),
                pre |-> db]
    /\ UNCHANGED <<dash, opening, reqs, ver>>

\* TransactionUpdateView.get: the edit form of a stored transaction, unbound.
UpdateGet(requester, pk) ==
    /\ ops < MaxOps
    /\ LoginRequired(requester)
    /\ pk \in UpdateQueryset(db, requester)
    /\ last' = [op |-> "edit_form", user |-> requester, pk |-> pk, data |-> NoData,
                choices |-> CategoryQueryset(requester, NoData, TRUE, db.txs[pk].type),
                pre |-> db]
    /\ UNCHANGED <<dash, db, opening, ops, reqs, ver>>

Delete(requester, pk) ==
    /\ ops < MaxOps
    /\ DeleteAccepted(db, requester, pk)
    /\ ops' = ops + 1
    /\ db' = DeleteResult(db, requester, pk)
    /\ last' = [op |-> "delete", user |-> requester, pk |-> pk, data |-> NoData,
                choices |-> {}, pre |-> db]
    /\ UNCHANGED <<dash, opening, reqs, ver>>

Next ==
    \/ ops < MaxOps /\ \E r \in Requesters, d \in FormData : Create(r, d)
    \/ ops < MaxOps /\ \E r \in Requesters : \E pk \in UpdateQueryset(db, r) :
           \E d \in FormData : Update(r, pk, d)
    \/ \E r \in Requesters, pk \in TxIds : UpdateGet(r, pk)
    \/ \E r \in Requesters, pk \in TxIds : Delete(r, pk)

Spec == Init /\ [][Next]_vars


\* ------------------------------------------------- requests step by step
\* The same handlers, one database query or save per step, for two requests
\* served at once. Nothing in the views locks a row or opens a transaction.
InFlight(p) == reqs[p].pc \notin {"idle", "done", "gone", "stopped"}

Bump(c) == IF c \in Cards THEN [ver EXCEPT ![c] = ver[c] + 1] ELSE ver

ReadVer(c) == IF c \in Cards THEN ver[c] ELSE 0

\* Stores the program reaches before the requests start: no transaction yet,
\* or one created by a completed request.
PreStores(S0) ==
    {S0} \cup {CreateResult(S0, u, d) :
                  <<u, d>> \in {x \in Users \X FormData : CreateAccepted(S0, x[1], x[2])}}

InitConc ==
    /\ opening = [c \in Cards |-> MaxOpening]
    /\ db \in PreStores([cards |-> opening, txs |-> <<>>, seq |-> 1])
    /\ last = [op |-> "none", user |-> Anonymous, pk |-> 0, data |-> NoData,
               choices |-> {}, pre |-> db]
    /\ ops = 0
    /\ reqs = [p \in Procs |-> Idle]
    /\ ver = [c \in Cards |-> 0]
    /\ dash = NoDash

\* TransactionCreateView.post up to form.is_valid(): the card field's clean
\* loads the Card object.
CreateBegin(p, requester, data) ==
    /\ reqs[p].pc = "idle"
    /\ db.seq + Cardinality({q \in Procs : reqs[q].pc = "create_valid"}) \in TxIds
    /\ CreateAccepted(db, requester, data)
    /\ reqs' = [reqs EXCEPT ![p] =
                   [Idle EXCEPT !.pc = "create_valid", !.op = "create",
                                !.user = requester, !.data = data,
                                !.card = CardLoad(db, data.card),
                                !.rv = ReadVer(data.card)]]
    /\ UNCHANGED <<dash, db, opening, last, ops, ver>>

\* form.save()
CreateSaveTx(p) ==
    /\ reqs[p].pc = "create_valid"
    /\ db' = TxInsert(db, FormInstance(reqs[p].user, reqs[p].data))
    /\ reqs' = [reqs EXCEPT ![p].pc = "create_saved", ![p].pk = db.seq]
    /\ UNCHANGED <<dash, opening, last, ops, ver>>

\* card.balance +=/-= amount; card.save()
CreateSaveCard(p) ==
    /\ reqs[p].pc = "create_saved"
    /\ LET r == reqs[p]
       IN  IF r.card.id # NoCard
           THEN /\ db' = CardSave(db, CreateApply(r.card, r.data.type, r.data.amount))
                /\ ver' = Bump(r.card.id)
           ELSE UNCHANGED <<db, ver>>
    /\ reqs' = [reqs EXCEPT ![p].pc = "done"]
    /\ UNCHANGED <<dash, opening, last, ops>>

\* TransactionUpdateView.post up to form.is_valid(): new_card is loaded here.
UpdateBegin(p, requester, pk, data) ==
    /\ reqs[p].pc = "idle"
    /\ UpdateAccepted(db, requester, pk, data)
    /\ reqs' = [reqs EXCEPT ![p] =
                   [Idle EXCEPT !.pc = "update_valid", !.op = "update",
                                !.user = requester, !.pk = pk, !.data = data,
                                !.card = CardLoad(db, data.card),
                                !.rv = ReadVer(data.card)]]
    /\ UNCHANGED <<dash, db, opening, last, ops, ver>>

\* old_transaction = self.get_object(); old_card = old_transaction.card
UpdateLoadOld(p) ==
    /\ reqs[p].pc = "update_valid"
    /\ LET r == reqs[p]
       IN  IF r.pk \in UpdateQueryset(db, r.user)
           THEN reqs' = [reqs EXCEPT ![p].pc = "update_loaded",
                                     ![p].oldtx = db.txs[r.pk],
                                     ![p].old = CardLoad(db, db.txs[r.pk].card)]
           ELSE reqs' = [reqs EXCEPT ![p].pc = "gone"]
    /\ UNCHANGED <<dash, db, opening, last, ops, ver>>

\* the rollback and old_card.save()
UpdateSaveOld(p) ==
    /\ reqs[p].pc = "update_loaded"
    /\ LET r == reqs[p]
       IN  IF r.old.id # NoCard
           THEN /\ db' = CardSave(db, UpdateRollback(r.old, r.oldtx.type, r.oldtx.amount))
                /\ ver' = Bump(r.old.id)
           ELSE UNCHANGED <<db, ver>>
    /\ reqs' = [reqs EXCEPT ![p].pc = "update_rolled"]
    /\ UNCHANGED <<dash, opening, last, ops>>

\* super().form_valid(form): form.save()
UpdateSaveTx(p) ==
    /\ reqs[p].pc = "update_rolled"
    /\ db' = TxSave(db, reqs[p].pk, FormInstance(reqs[p].user, reqs[p].data))
    /\ reqs' = [reqs EXCEPT ![p].pc = "update_saved"]
    /\ UNCHANGED <<dash, opening, last, ops, ver>>

\* new_card.balance +=/-= amount; new_card.save()
UpdateSaveCard(p) ==
    /\ reqs[p].pc = "update_saved"
    /\ LET r == reqs[p]
       IN  IF r.card.id # NoCard
           THEN /\ db' = CardSave(db, UpdateApply(r.card, r.data.type, r.data.amount))
                /\ ver' = Bump(r.card.id)
           ELSE UNCHANGED <<db, ver>>
    /\ reqs' = [reqs EXCEPT ![p].pc = "done"]
    /\ UNCHANGED <<dash, opening, last, ops>>

\* transaction = self.get_object(); card = transaction.card
DeleteBegin(p, requester, pk) ==
    /\ reqs[p].pc = "idle"
    /\ DeleteAccepted(db, requester, pk)
    /\ reqs' = [reqs EXCEPT ![p] =
                   [Idle EXCEPT !.pc = "delete_loaded", !.op = "delete",
                                !.user = requester, !.pk = pk,
                                !.oldtx = db.txs[pk],
                                !.card = CardLoad(db, db.txs[pk].card),
                                !.rv = ReadVer(db.txs[pk].card)]]
    /\ UNCHANGED <<dash, db, opening, last, ops, ver>>

\* the rollback and card.save()
DeleteSaveCard(p) ==
    /\ reqs[p].pc = "delete_loaded"
    /\ LET r == reqs[p]
       IN  IF r.card.id # NoCard
           THEN /\ db' = CardSave(db, DeleteRollback(r.card, r.oldtx.type, r.oldtx.amount))
                /\ ver' = Bump(r.card.id)
           ELSE UNCHANGED <<db, ver>>
    /\ reqs' = [reqs EXCEPT ![p].pc = "delete_card_saved"]
    /\ UNCHANGED <<dash, opening, last, ops>>

\* super().delete(): self.get_object() again, then self.object.delete()
DeleteRemove(p) ==
    /\ reqs[p].pc = "delete_card_saved"
    /\ LET r == reqs[p]
       IN  IF r.pk \in DeleteQueryset(db, r.user)
           THEN /\ db' = TxDelete(db, r.pk)
                /\ reqs' = [reqs EXCEPT ![p].pc = "done"]
           ELSE /\ db' = db
                /\ reqs' = [reqs EXCEPT ![p].pc = "gone"]
    /\ UNCHANGED <<dash, opening, last, ops, ver>>

\* The request stops where it is (the worker dies, a query raises): what it
\* has saved stays saved, no handler undoes it.
Stop(p) ==
    /\ InFlight(p)
    /\ reqs' = [reqs EXCEPT ![p].pc = "stopped"]
    /\ UNCHANGED <<dash, db, opening, last, ops, ver>>

\* Two requests served at once; the processes are interchangeable, so p2 is
\* the one that starts second.
Started(p) == p = "p1" \/ reqs["p1"].pc # "idle"

CanBegin(p) == reqs[p].pc = "idle" /\ Started(p)

NextConc ==
    \/ \E p \in {q \in Procs : CanBegin(q)} :
           \E r \in Requesters, d \in FormData : CreateBegin(p, r, d)
    \/ \E p \in Procs : CreateSaveTx(p)
    \/ \E p \in Procs : CreateSaveCard(p)
    \/ \E p \in {q \in Procs : CanBegin(q)} :
           \E r \in Requesters : \E pk \in UpdateQueryset(db, r) :
               \E d \in FormData : UpdateBegin(p, r, pk, d)
    \/ \E p \in Procs : UpdateLoadOld(p)
    \/ \E p \in Procs : UpdateSaveOld(p)
    \/ \E p \in Procs : UpdateSaveTx(p)
    \/ \E p \in Procs : UpdateSaveCard(p)
    \/ \E p \in {q \in Procs : CanBegin(q)} :
           \E r \in Requesters, pk \in TxIds : DeleteBegin(p, r, pk)
    \/ \E p \in Procs : DeleteSaveCard(p)
    \/ \E p \in Procs : DeleteRemove(p)

SpecConc == InitConc /\ [][NextConc]_vars

\* One request, which may stop after any of its steps.
NextStop ==
    \/ \E p \in {q \in {"p1"} : reqs[q].pc = "idle"} :
           \E r \in Requesters, d \in FormData : CreateBegin(p, r, d)
    \/ CreateSaveTx("p1")
    \/ CreateSaveCard("p1")
    \/ \E p \in {q \in {"p1"} : reqs[q].pc = "idle"} :
           \E r \in Requesters : \E pk \in UpdateQueryset(db, r) :
               \E d \in FormData : UpdateBegin(p, r, pk, d)
    \/ UpdateLoadOld("p1")
    \/ UpdateSaveOld("p1")
    \/ UpdateSaveTx("p1")
    \/ UpdateSaveCard("p1")
    \/ \E p \in {q \in {"p1"} : reqs[q].pc = "idle"} :
           \E r \in Requesters, pk \in TxIds : DeleteBegin(p, r, pk)
    \/ DeleteSaveCard("p1")
    \/ DeleteRemove("p1")
    \/ Stop("p1")

SpecStop == InitConc /\ [][NextStop]_vars


\* ------------------------------------------------------------ DashboardView
\* Dates are calendar dates; Ordinal is the proleptic Gregorian day number
\* (1 for 0001-01-01, a Monday).
IsLeap(y) == (y % 4 = 0 /\ y % 100 # 0) \/ y % 400 = 0

DaysInMonth(y, m) ==
    IF m = 2 THEN (IF IsLeap(y) THEN 29 ELSE 28)
    ELSE IF m \in {4, 6, 9, 11} THEN 30 ELSE 31

RECURSIVE DaysBeforeMonth(_, _)
DaysBeforeMonth(y, m) ==
    IF m = 1 THEN 0 ELSE DaysBeforeMonth(y, m - 1) + DaysInMonth(y, m - 1)

Ordinal(d) ==
    LET y == d.year - 1
    IN  y * 365 + (y \div 4) - (y \div 100) + (y \div 400)
        + DaysBeforeMonth(d.year, d.month) + d.day

Date(y, m, d) == [year |-> y, month |-> m, day |-> d]

\* datetime.now().date(): a Wednesday in mid-month, and the first Sunday of a
\* year, whose week began in the year before.
Todays == {Date(2025, 2, 12), Date(2025, 1, 5)}

CalendarDates ==
    {d \in [year : {2024, 2025}, month : {12, 1, 2}, day : 1..31] :
        /\ d.day <= DaysInMonth(d.year, d.month)
        /\ d.year = 2024 <=> d.month = 12}

DateTable ==
    [o \in {Ordinal(d) : d \in CalendarDates} |->
        CHOOSE d \in CalendarDates : Ordinal(d) = o]

\* date - timedelta(days=n)
MinusDays(d, n) == DateTable[Ordinal(d) - n]

\* date.weekday(): Monday is 0
Weekday(d) == (Ordinal(d) + 6) % 7

PeriodStart(period, today) ==
    IF period = "week" THEN MinusDays(today, Weekday(today))
    ELSE IF period = "year" THEN [today EXCEPT !.month = 1, !.day = 1]
    ELSE [today EXCEPT !.day = 1]

Periods == {"week", "month", "year", "quarter"}

\* The 'card' query parameter, as a string of characters; "sup2" stands for
\* U+00B2, which str.isdigit accepts and int() rejects.
DecimalDigits == {"0", "1", "2", "3"}
DigitValue == [ch \in DecimalDigits |-> IF ch = "0" THEN 0 ELSE IF ch = "1" THEN 1
                                                  ELSE IF ch = "2" THEN 2 ELSE 3]

IsDigit(text) ==
    /\ Len(text) > 0
    /\ \A i \in 1..Len(text) : text[i] \in DecimalDigits \cup {"sup2"}

IntParses(text) ==
    /\ Len(text) > 0
    /\ \A i \in 1..Len(text) : text[i] \in DecimalDigits

RECURSIVE ParseInt(_)
ParseInt(text) ==
    IF text = <<>> THEN 0
    ELSE 10 * ParseInt(SubSeq(text, 1, Len(text) - 1)) + DigitValue[text[Len(text)]]

CardParams ==
    {NoParam} \cup
    {[given |-> TRUE, text |-> t] :
        t \in {<<>>, <<"1">>, <<"3">>, <<"0", "1">>, <<"a">>, <<"sup2">>}}

CardId == [c \in Cards |-> IF c = "c1" THEN 1 ELSE IF c = "c2" THEN 2 ELSE 3]

\* cards = Card.objects.filter(user=user)
\* Faulty variant: the cards are not filtered by owner.
UserCardsAnyOwner(S, user) == DOMAIN S.cards

UserCards(S, user) == {c \in DOMAIN S.cards : CardOwner[c] = user}

\* The filter on the id raises for a text int() rejects: the view answers with
\* an error page and renders nothing.
DashboardRenders(requester, param) ==
    /\ LoginRequired(requester)
    /\ (param.given /\ IsDigit(param.text)) => IntParses(param.text)

\* selected_card: cards.filter(id=card_id).first(), NoCard for None
SelectedCard(S, user, param) ==
    IF param.given /\ param.text # <<>> /\ IsDigit(param.text)
    THEN LET hit == {c \in UserCards(S, user) : CardId[c] = ParseInt(param.text)}
         IN  IF hit = {} THEN NoCard ELSE CHOOSE c \in hit : TRUE
    ELSE NoCard

\* transactions: the primary keys of the period's queryset
DashTransactions(S, user, start, today, selected) ==
    {p \in DOMAIN S.txs :
        /\ S.txs[p].user = user
        /\ Ordinal(S.txs[p].date) >= Ordinal(start)
        /\ Ordinal(S.txs[p].date) <= Ordinal(today)
        /\ selected # NoCard => S.txs[p].card = selected}

\* aggregate(total=Sum(...))['total']: {} is None, {n} the sum n
RECURSIVE SumAmounts(_, _)
SumAmounts(txs, pks) ==
    IF pks = {} THEN 0
    ELSE LET p == CHOOSE q \in pks : TRUE
         IN  txs[p].amount + SumAmounts(txs, pks \ {p})

AggregateAmount(txs, pks) == IF pks = {} THEN {} ELSE {SumAmounts(txs, pks)}

RECURSIVE SumBalances(_, _)
SumBalances(cards, cs) ==
    IF cs = {} THEN 0
    ELSE LET c == CHOOSE q \in cs : TRUE
         IN  cards[c] + SumBalances(cards, cs \ {c})

AggregateBalance(cards, cs) == IF cs = {} THEN {} ELSE {SumBalances(cards, cs)}

\* total or Decimal('0')
OrZero(total) == IF total = {} \/ total = {0} THEN 0 ELSE CHOOSE n \in total : TRUE

OfType(txs, pks, type) == {p \in pks : txs[p].type = type}

DashIncome(txs, pks) == OrZero(AggregateAmount(txs, OfType(txs, pks, "income")))

DashExpense(txs, pks) == OrZero(AggregateAmount(txs, OfType(txs, pks, "expense")))

DashBalance(S, user, selected) ==
    IF selected # NoCard
    THEN S.cards[selected]
    ELSE OrZero(AggregateBalance(S.cards, UserCards(S, user)))

\* generate_ai_recommendations: the messages, by rule, in the order appended.
\* Faulty variant: the fallback message is appended whatever the rules gave.
GenerateRecommendationsAlwaysFallback(txs, pks, income, expense, today) ==
    (IF expense > income THEN <<"overspend">> ELSE <<>>) \o <<"balanced">>

GenerateRecommendations(txs, pks, income, expense, today) ==
    LET expenses == OfType(txs, pks, "expense")
        top_cat == {txs[p].category : p \in expenses}
        week_ago == MinusDays(today, 7)
        week_expense ==
            OrZero(AggregateAmount(txs,
                {p \in expenses : Ordinal(txs[p].date) >= Ordinal(week_ago)}))
        expenses_list == Cardinality(expenses)
        categories_count == Cardinality({txs[p].category : p \in expenses})
        recommendations ==
            (IF expense > income THEN <<"overspend">> ELSE <<>>)
            \o (IF top_cat # {} THEN <<"top_category">> ELSE <<>>)
            \o (IF week_expense > 0 /\ 2 * week_expense > expense
                THEN <<"week_growth">> ELSE <<>>)
            \o (IF expenses_list > 0
                   /\ SumAmounts(txs, expenses) > 3000 * expenses_list
                THEN <<"high_average">> ELSE <<>>)
            \o (IF categories_count = 1 THEN <<"one_category">> ELSE <<>>)
    IN  IF recommendations = <<>> THEN <<"balanced">> ELSE recommendations

\* DashboardView.get_context_data
DashboardContext(S, user, today, period, param) ==
    LET start_date == PeriodStart(period, today)
        selected_card == SelectedCard(S, user, param)
        transactions == DashTransactions(S, user, start_date, today, selected_card)
        income == DashIncome(S.txs, transactions)
        expense == DashExpense(S.txs, transactions)
    IN  [user |-> user, today |-> today, period |-> period, param |-> param,
         selected |-> selected_card, income |-> income, expense |-> expense,
         balance |-> DashBalance(S, user, selected_card),
         recs |-> GenerateRecommendations(S.txs, transactions, income, expense,
                                          today)]

\* The view reads the store and writes nothing: a run renders one page.
Dashboard(requester, today, period, param) ==
    /\ dash = NoDash
    /\ DashboardRenders(requester, param)
    /\ dash' = DashboardContext(db, requester, today, period, param)
    /\ UNCHANGED <<db, opening, last, ops, reqs, ver>>

NextDash ==
    \E r \in Requesters, t \in Todays, q \in Periods, c \in CardParams :
        Dashboard(r, t, q, c)

\* Stored transactions carry their date. Stores that differ only in the order
\* of the primary keys render the same dashboard: one order is kept of each.
TxRank(t) ==
    LET u == IF t.user = "u1" THEN 0 ELSE 1
        y == IF t.type = "income" THEN 0 ELSE 1
        c == IF t.card = NoCard THEN 0 ELSE CardId[t.card]
        k == IF t.category = "k1i" THEN 0 ELSE IF t.category = "k1e" THEN 1
             ELSE IF t.category = "k1x" THEN 2 ELSE 3
    IN  ((((u * 2 + y) * 4 + c) * 4 + k) * 64 + t.amount \div 1000) * 128
        + Ordinal(t.date) - Ordinal(Date(2024, 12, 1))

TxTables(records, n) ==
    UNION {{f \in [1..m -> records] :
               \A i \in 1..(m - 1) : TxRank(f[i]) <= TxRank(f[i + 1])} : m \in 0..n}

DashAmounts == {2000 * a : a \in Amounts}

\* Dates before, inside and after the periods of the days in Todays.
DashDates == {Date(2024, 12, 30), Date(2025, 1, 20), Date(2025, 2, 11)}

\* u1's incomes are of one amount, the expenses of any; u2 has one expense.
DashRecords ==
    {t \in [user : {"u1"}, type : TYPE_CHOICES, amount : DashAmounts,
            card : {NoCard, "c1"}, category : {"k1i", "k1e"}, date : DashDates] :
        /\ CatType[t.category] = t.type
        /\ t.type = "income" => t.amount = 2000}
    \cup {[user |-> "u2", type |-> "expense", amount |-> 2000, card |-> NoCard,
           category |-> "k2e", date |-> Date(2025, 1, 2)]}

\* u1 owns two cards; u2 has none.
DashCards == [c \in {"c1", "c2"} |-> IF c = "c1" THEN 10 ELSE 25]

InitDash ==
    /\ opening = [c \in Cards |-> 0]
    /\ db \in {[cards |-> DashCards, txs |-> f, seq |-> Len(f) + 1] :
                f \in TxTables(DashRecords, MaxTx)}
    /\ last = [op |-> "none", user |-> Anonymous, pk |-> 0, data |-> NoData,
               choices |-> {}, pre |-> [cards |-> opening, txs |-> <<>>, seq |-> 1]]
    /\ ops = 0
    /\ reqs = [p \in Procs |-> Idle]
    /\ ver = [c \in Cards |-> 0]
    /\ dash = NoDash

SpecDash == InitDash /\ [][NextDash]_vars

\* The recommendations: one user, no cards, expenses in one or two categories.
RecRecords ==
    {t \in [user : {"u1"}, type : TYPE_CHOICES, amount : DashAmounts,
            card : {NoCard}, category : {"k1i", "k1e", "k1x"}, date : DashDates] :
        CatType[t.category] = t.type}

InitRec ==
    /\ opening = [c \in Cards |-> 0]
    /\ db \in {[cards |-> <<>>, txs |-> f, seq |-> Len(f) + 1] :
                f \in TxTables(RecRecords, MaxTx + 1)}
    /\ last = [op |-> "none", user |-> Anonymous, pk |-> 0, data |-> NoData,
               choices |-> {}, pre |-> [cards |-> opening, txs |-> <<>>, seq |-> 1]]
    /\ ops = 0
    /\ reqs = [p \in Procs |-> Idle]
    /\ ver = [c \in Cards |-> 0]
    /\ dash = NoDash

NextRec ==
    \E t \in Todays, q \in Periods : Dashboard("u1", t, q, NoParam)

SpecRec == InitRec /\ [][NextRec]_vars

\* ================================================================ claims
\* The signed effect of a stored transaction on its card.
Effect(type, amount) == IF type = "income" THEN amount ELSE 0 - amount

RECURSIVE SumEffects(_, _, _)
SumEffects(txs, pks, c) ==
    IF pks = {} THEN 0
    ELSE LET p == CHOOSE q \in pks : TRUE
         IN  (IF txs[p].card = c THEN Effect(txs[p].type, txs[p].amount) ELSE 0)
             + SumEffects(txs, pks \ {p}, c)

\* C1: a create with a card moves that card's stored balance by exactly the
\* amount, up for income and down for any other type, and the stored
\* transaction belongs to the requesting user.
C1_CreateAdjustsCard ==
    last.op = "create" =>
        /\ last.pk \in DOMAIN db.txs
        /\ db.txs[last.pk].user = last.user
        /\ LET t == db.txs[last.pk]
           IN  t.card # NoCard =>
                   db.cards[t.card] =
                       IF t.type = "income"
                       THEN last.pre.cards[t.card] + t.amount
                       ELSE last.pre.cards[t.card] - t.amount

C1_Witness ==
    /\ last.op = "create"
    /\ last.data.card # NoCard
    /\ last.data.type = "expense"
    /\ db.cards[last.data.card] # last.pre.cards[last.data.card]

\* C2: an update takes the old effect out of the old card and puts the new
\* effect into the new card; on the same card the balance moves by
\* Effect(new) - Effect(old).
C2_UpdateReversesThenApplies ==
    last.op = "update" =>
        LET old == last.pre.txs[last.pk]
            new == db.txs[last.pk]
            undo(c) == IF c = old.card THEN Effect(old.type, old.amount) ELSE 0
            redo(c) == IF c = new.card THEN Effect(new.type, new.amount) ELSE 0
        IN  \A c \in Cards :
                db.cards[c] = last.pre.cards[c] - undo(c) + redo(c)

\* C3: a delete removes the transaction and takes its effect back out of its
\* card, so a create directly followed by the delete of the created
\* transaction restores every balance.
C3_DeleteReversesCreate ==
    [][last'.op = "delete" =>
          /\ last'.pk \notin DOMAIN db'.txs
          /\ LET t == db.txs[last'.pk]
             IN  \A c \in Cards :
                     db'.cards[c] =
                         IF c = t.card
                         THEN db.cards[c] - Effect(t.type, t.amount)
                         ELSE db.cards[c]
          /\ (last.op = "create" /\ last.pk = last'.pk) =>
                 db'.cards = last.pre.cards]_vars

C3_Witness ==
    /\ last.op = "delete"
    /\ ops = 2
    /\ last.pre.txs[last.pk].card # NoCard
    /\ last.pre.txs[last.pk].type = "expense"
    /\ db.cards = opening
    /\ db.cards # last.pre.cards

\* C4: every stored transaction has a card that is empty or owned by the
\* transaction's user and an active category owned by that user, and what a
\* create or update stores is the requesting user's validated submission.
C4_OwnerConsistent ==
    /\ \A p \in DOMAIN db.txs :
           LET t == db.txs[p]
           IN  /\ t.card = NoCard \/ (t.card \in Cards /\ CardOwner[t.card] = t.user)
               /\ t.category \in Categories
               /\ CatOwner[t.category] = t.user
               /\ CatActive[t.category]
    /\ last.op \in {"create", "update"} =>
           /\ last.user \in Users
           /\ db.txs[last.pk] = FormInstance(last.user, last.data)

C4_Witness ==
    /\ last.op = "update"
    /\ db.txs[last.pk].card # NoCard
    /\ db.txs[last.pk].card # last.pre.txs[last.pk].card

\* The adjustment a request makes to the card it saves last.
Adjustment(r) ==
    IF r.op = "delete" THEN 0 - Effect(r.oldtx.type, r.oldtx.amount)
    ELSE Effect(r.data.type, r.data.amount)

\* C5: nothing guards a card's balance against concurrent requests: when two
\* completed requests both read the same card before either saved it, the
\* stored balance is the balance they read plus the adjustment of one of
\* them only; the other adjustment is lost.
C5_LostUpdate ==
    \A p, q \in Procs :
        (/\ p # q
         /\ reqs[p].pc = "done" /\ reqs[q].pc = "done"
         /\ reqs[p].card.id \in Cards
         /\ reqs[q].card.id = reqs[p].card.id
         /\ reqs[q].rv = reqs[p].rv) =>
            LET c == reqs[p].card.id
                b == reqs[p].card.balance
            IN  /\ reqs[q].card.balance = b
                /\ db.cards[c] \in {b + Adjustment(reqs[p]), b + Adjustment(reqs[q])}
                /\ db.cards[c] # b + Adjustment(reqs[p]) + Adjustment(reqs[q])

C5_Witness ==
    /\ reqs["p1"].pc = "done" /\ reqs["p2"].pc = "done"
    /\ reqs["p1"].op = "create" /\ reqs["p2"].op = "update"
    /\ reqs["p1"].card.id = "c1" /\ reqs["p2"].card.id = "c1"
    /\ reqs["p1"].rv = reqs["p2"].rv
    /\ db.cards["c1"] = reqs["p1"].card.balance + Adjustment(reqs["p1"])

\* C6: the handlers persist their writes one by one: create stores the
\* transaction before it adjusts the card, update stores the rolled-back old
\* card, then the transaction, then the new card, delete stores the card
\* before it removes the transaction; a request that stops leaves the store
\* as it is at that point.
C6_NoAtomicity ==
    [][\A p \in Procs :
          LET r == reqs[p]
              n == reqs'[p]
          IN  /\ (r.pc = "create_valid" /\ n.pc = "create_saved") =>
                     /\ n.pk \notin DOMAIN db.txs
                     /\ n.pk \in DOMAIN db'.txs
                     /\ db'.cards = db.cards
              /\ (r.pc = "create_saved" /\ n.pc = "done") =>
                     /\ db'.txs = db.txs
                     /\ r.card.id \in Cards =>
                            db'.cards[r.card.id] = r.card.balance + Adjustment(r)
              /\ (r.pc = "update_loaded" /\ n.pc = "update_rolled") =>
                     /\ db'.txs = db.txs
                     /\ r.old.id \in Cards =>
                            db'.cards[r.old.id] =
                                r.old.balance - Effect(r.oldtx.type, r.oldtx.amount)
              /\ (r.pc = "update_rolled" /\ n.pc = "update_saved") =>
                     /\ db'.cards = db.cards
                     /\ db'.txs[r.pk] = FormInstance(r.user, r.data)
              /\ (r.pc = "update_saved" /\ n.pc = "done") =>
                     /\ db'.txs = db.txs
                     /\ r.card.id \in Cards =>
                            db'.cards[r.card.id] = r.card.balance + Adjustment(r)
              /\ (r.pc = "delete_loaded" /\ n.pc = "delete_card_saved") =>
                     /\ db'.txs = db.txs
                     /\ r.card.id \in Cards =>
                            db'.cards[r.card.id] = r.card.balance + Adjustment(r)
              /\ (r.pc = "delete_card_saved" /\ n.pc = "done") =>
                     /\ db'.cards = db.cards
                     /\ r.pk \notin DOMAIN db'.txs
              /\ (n.pc = "stopped") => db' = db]_vars

C6_Witness ==
    /\ reqs["p1"].pc = "stopped"
    /\ reqs["p1"].op = "create"
    /\ reqs["p1"].pk \in DOMAIN db.txs
    /\ reqs["p1"].card.id \in Cards
    /\ db.cards[reqs["p1"].card.id]
           # opening[reqs["p1"].card.id]
             + SumEffects(db.txs, DOMAIN db.txs, reqs["p1"].card.id)

\* C7: with requests run one at a time to completion, every card's balance is
\* its opening balance plus the stored incomes minus the stored expenses on it.
C7_BalanceMatchesTransactions ==
    \A c \in Cards :
        db.cards[c] = opening[c] + SumEffects(db.txs, DOMAIN db.txs, c)

\* C8: a stored transaction's category has the transaction's type; the category
\* choices of a submission are the user's active categories of the submitted
\* type, and those of an edit form without a submitted type are the ones of
\* the stored transaction's type.
C8_CategoryMatchesType ==
    /\ \A p \in DOMAIN db.txs : CatType[db.txs[p].category] = db.txs[p].type
    /\ last.op \in {"create", "update"} =>
           /\ last.data.type \in {"income", "expense"}
           /\ last.choices = {k \in Categories : /\ CatOwner[k] = last.user
                                                /\ CatActive[k]
                                                /\ CatType[k] = last.data.type}
           /\ last.data.category \in last.choices
    /\ last.op = "edit_form" =>
           last.choices = {k \in Categories : /\ CatOwner[k] = last.user
                                              /\ CatActive[k]
                                              /\ CatType[k] = db.txs[last.pk].type}

C8_Witness ==
    /\ last.op = "update"
    /\ last.data.type # last.pre.txs[last.pk].type
    /\ CatType[db.txs[last.pk].category] = "income"

\* C9: a create or delete changes no balance but that of the transaction's
\* card (none for cash), an update none but the old and the new card's, and
\* no card of a user other than the transaction's owner changes.
C9_OnlyInvolvedCards ==
    LET involved ==
            IF last.op = "create" THEN {last.data.card}
            ELSE IF last.op = "delete" THEN {last.pre.txs[last.pk].card}
            ELSE IF last.op = "update"
                 THEN {last.pre.txs[last.pk].card, last.data.card}
            ELSE {}
        owner ==
            IF last.op = "create" THEN last.user
            ELSE IF last.op \in {"update", "delete"} THEN last.pre.txs[last.pk].user
            ELSE Anonymous
    IN  \A c \in Cards :
            (c \notin involved \/ CardOwner[c] # owner) =>
                db.cards[c] = last.pre.cards[c]

C9_Witness ==
    /\ last.op = "update"
    /\ last.pre.txs[last.pk].card \in Cards
    /\ last.data.card \in Cards
    /\ last.data.card # last.pre.txs[last.pk].card
    /\ db.cards[last.data.card] # last.pre.cards[last.data.card]

\* C10: a transaction is changed or removed only by a request of its owner,
\* who is logged in.
C10_OnlyOwnerChanges ==
    last.op \in {"update", "delete"} =>
        /\ last.user \in Users
        /\ last.user = last.pre.txs[last.pk].user

\* ---------------------------------------------------------------- dashboard
\* Calendar order, by year, month and day.
DateLeq(a, b) ==
    \/ a.year < b.year
    \/ a.year = b.year /\ a.month < b.month
    \/ a.year = b.year /\ a.month = b.month /\ a.day <= b.day

\* The Monday of the week of each day a dashboard is rendered on.
MondayOf(today) ==
    IF today = Date(2025, 2, 12) THEN Date(2025, 2, 10) ELSE Date(2024, 12, 30)

ExpectedStart(period, today) ==
    IF period = "week" THEN MondayOf(today)
    ELSE IF period = "year" THEN Date(today.year, 1, 1)
    ELSE Date(today.year, today.month, 1)

\* The rendered user's transactions of the rendered period and card.
PeriodSet ==
    {p \in DOMAIN db.txs :
        /\ db.txs[p].user = dash.user
        /\ DateLeq(ExpectedStart(dash.period, dash.today), db.txs[p].date)
        /\ DateLeq(db.txs[p].date, dash.today)
        /\ dash.selected # NoCard => db.txs[p].card = dash.selected}

RECURSIVE Total(_, _)
Total(f, S) ==
    IF S = {} THEN 0
    ELSE LET x == CHOOSE y \in S : TRUE IN f[x] + Total(f, S \ {x})

OwnCards == {c \in DOMAIN db.cards : CardOwner[c] = dash.user}

\* The parameter is the decimal numeral of a card id.
Names(param, c) ==
    /\ param.given
    /\ Len(param.text) > 0
    /\ \A i \in 1..Len(param.text) : param.text[i] \in DecimalDigits
    /\ ParseInt(param.text) = CardId[c]

\* C11: a rendered dashboard shows only the requesting user's data: income and
\* expense are the sums of the user's income and expense amounts dated from the
\* period start through today, of the selected card only when one is selected,
\* and 0 when there are none; the selected card is one of the user's own cards,
\* and a parameter that is absent, not numeric or names no card of the user
\* selects nothing; the balance is the selected card's, or else the sum of the
\* user's card balances, 0 when the user has no card.
C11_DashboardOwnData ==
    dash.user \in Users =>
        LET amount == [p \in DOMAIN db.txs |-> db.txs[p].amount]
        IN  /\ dash.selected \in OwnCards \cup {NoCard}
            /\ (\A c \in OwnCards : ~Names(dash.param, c)) => dash.selected = NoCard
            /\ \A c \in OwnCards : Names(dash.param, c) => dash.selected = c
            /\ dash.income =
                 Total(amount, {p \in PeriodSet : db.txs[p].type = "income"})
            /\ dash.expense =
                 Total(amount, {p \in PeriodSet : db.txs[p].type = "expense"})
            /\ dash.balance = IF dash.selected # NoCard
                              THEN db.cards[dash.selected]
                              ELSE Total(db.cards, OwnCards)

\* u2, who has no card, names u1's card: nothing is selected, the balance is 0
\* and the expense is u2's own, whatever u1 has stored.
C11_Witness ==
    /\ dash.user = "u2"
    /\ dash.param = [given |-> TRUE, text |-> <<"1">>]
    /\ "c1" \in DOMAIN db.cards
    /\ dash.selected = NoCard
    /\ dash.balance = 0
    /\ dash.expense = 2000
    /\ \E p \in DOMAIN db.txs :
          /\ db.txs[p].user = "u1"
          /\ db.txs[p].type = "expense"
          /\ DateLeq(db.txs[p].date, dash.today)

RuleMessages ==
    {"overspend", "top_category", "week_growth", "high_average", "one_category"}

\* C12: the recommendations are never empty; the fallback message is present
\* exactly when no rule's message is, and is then the only element; the
\* overspending message is present exactly when expense > income; and, amounts
\* being positive, the fallback is returned exactly when the period's
\* transactions hold no expense, any expense giving the top-category message.
C12_RecommendationsNeverEmpty ==
    dash.user \in Users =>
        LET got == {dash.recs[i] : i \in 1..Len(dash.recs)}
            expenses == {p \in PeriodSet : db.txs[p].type = "expense"}
        IN  /\ Len(dash.recs) > 0
            /\ "balanced" \in got <=> got \cap RuleMessages = {}
            /\ "balanced" \in got => dash.recs = <<"balanced">>
            /\ "overspend" \in got <=> dash.expense > dash.income
            /\ "balanced" \in got <=> expenses = {}
            /\ expenses # {} => "top_category" \in got

\* The fallback alone, for a period with income and an expense stored outside it.
C12_Witness ==
    /\ dash.recs = <<"balanced">>
    /\ dash.income > 0
    /\ \E p \in DOMAIN db.txs : db.txs[p].type = "expense"

====
